---- MODULE Spec2Model ----
(***************************************************************************)
(* Model of the job orchestration core of the video uniquifier service:   *)
(* VideoProcessor (app/services/video_processor.py), the request handlers *)
(* that drive it (app/main.py) and cleanup_file (app/utils/file_handler).  *)
(*                                                                         *)
(* The event loop runs one handler or one run segment (the code between   *)
(* two awaits) at a time, so each of them is one action.  Work handed to  *)
(* a worker thread (the encoder call, the zip build) is an action of its  *)
(* own that happens between the segment that starts it and the one that   *)
(* resumes after it.                                                       *)
(***************************************************************************)
EXTENDS Integers, Sequences, FiniteSets, TLC

\* ---- bounds of the model ----
MaxTasks == 1
MaxCopies == 3
MaxTime == 1
MaxHours == 1

TaskIds == 1..MaxTasks
CopyCounts == 1..MaxCopies
Hours == 0..MaxHours

\* Python's None, for the optional entries of a task dict
None == <<>>

\* a file name that leaves the copy index out
output_filename_const(i) == <<0, 0, 1>>

\* the three digits of "{i:03d}" in the output file name video_{i:03d}.<fmt>
output_filename(i) == <<(i \div 100) % 10, (i \div 10) % 10, i % 10>>

\* archive_path.name, "videos_{task_id}.zip"
archive_name(t) == <<"videos", t>>

\* str(e) of the exception caught by the run
ExcText == <<"exception">>

VARIABLES
    active_tasks,   \* VideoProcessor.active_tasks: task id -> task dict
    outdir,         \* settings.output_dir / task_id on disk: its output files, its
                    \* archive (zip), the archive's member names, and as history
                    \* the output files that were on disk when the archive was built
    bg,             \* the background task cleanup_task_after_download(task_id)
    upload,         \* the saved input file of each submission, in settings.upload_dir
    next_id,        \* how many task ids have been drawn
    now,            \* datetime.now()
    pc,             \* where the run of _process_task(task_id) stands
    i,              \* the loop variable i of the run
    created_files,  \* the local list created_files of the run
    copies_count,   \* the argument copies_count of the run
    ret,            \* the value the worker thread handed back to the run
    raised,         \* history: where an exception was raised for the task
    failed_copies,  \* history: the copy indices that were not appended
    unlinks,        \* history: how many times the input file was unlinked
    resp,           \* the response of the handler that ran in the last step, or NoResp
    events,         \* history: what has happened to each task id
    rng,            \* the state of the shared pseudo-random source (module random)
    calls,          \* history: the calls of _generate_unique_params and their results
    worker,         \* the worker threads inside create_unique_copy: the copy number
                    \* of each, how far it is, and what its draws have returned
    sched           \* the thread that ran last, and the preemptions so far

vars == <<active_tasks, outdir, bg, upload, next_id, now, pc, i,
          created_files, copies_count, ret, raised, failed_copies, unlinks,
          resp, events, rng, calls, worker, sched>>

run_vars == <<pc, i, created_files, copies_count, ret>>
hist_vars == <<raised, failed_copies, unlinks>>
gen_vars == <<rng, calls, worker, sched>>

NoDir == [exists |-> FALSE, files |-> {}, zip |-> FALSE, members |-> {}, on_disk |-> {},
          mtime |-> 0]
NoFile == [exists |-> FALSE, mtime |-> 0]

\* no response: the last step was not a request handler that the model records
\* ---- bounds of the model of concurrent encodes ----
MaxThreads == 2
MaxPreemptions == 2

Threads == 1..MaxThreads

\* a worker thread that has not entered create_unique_copy
Idle == [copy_number |-> 0, pos |-> "idle", drawn |-> <<>>]

NoResp == [op |-> "none", t |-> 0, code |-> 0, detail |-> "", body |-> None]

\* a step that sends no response and adds nothing to the history of events
no_response == resp' = NoResp /\ UNCHANGED events

\* the event e is added to the history of task id t
record_event(t, e) == events' = [events EXCEPT ![t] = @ \cup {e}]

Init ==
    /\ active_tasks = [t \in {} |-> None]
    /\ outdir = [t \in TaskIds |-> NoDir]
    /\ bg = [t \in TaskIds |-> "idle"]
    /\ upload = [t \in TaskIds |-> NoFile]
    /\ next_id = 0
    /\ now = 0
    /\ pc = [t \in TaskIds |-> "unborn"]
    /\ i = [t \in TaskIds |-> 0]
    /\ created_files = [t \in TaskIds |-> <<>>]
    /\ copies_count = [t \in TaskIds |-> 0]
    /\ ret = [t \in TaskIds |-> FALSE]
    /\ raised = [t \in TaskIds |-> "no"]
    /\ failed_copies = [t \in TaskIds |-> {}]
    /\ unlinks = [t \in TaskIds |-> 0]
    /\ resp = NoResp
    /\ events = [t \in TaskIds |-> {}]
    /\ rng = 0
    /\ calls = <<>>
    /\ worker = [th \in Threads |-> Idle]
    /\ sched = [last |-> 0, preemptions |-> 0]

\* ---- the clock ----
Tick ==
    /\ now < MaxTime
    /\ now' = now + 1
    /\ UNCHANGED <<active_tasks, outdir, bg, upload, next_id, run_vars, hist_vars>>
    /\ no_response
    /\ UNCHANGED gen_vars

\* ---- dict helpers ----
has_task(t) == t \in DOMAIN active_tasks

del_task(tasks, t) == [k \in (DOMAIN tasks) \ {t} |-> tasks[k]]

Range(s) == {s[k] : k \in DOMAIN s}

\* ---- cleanup_file ----
\* file_path.unlink() when the file exists
cleanup_file(f) == [f EXCEPT !.exists = FALSE]

unlink_count(f) == IF f.exists THEN 1 ELSE 0

\* task_dir.mkdir(): an empty directory
mkdir(clock) == [NoDir EXCEPT !.exists = TRUE, !.mtime = clock]

\* ---- process_video, called by upload_video ----
\* the initial task dict
new_task(total, clock) ==
    [status |-> "processing", progress |-> 0, total |-> total, files |-> <<>>,
     archive |-> None, error |-> None, created_at |-> clock, last_accessed |-> clock]

\* upload_video saves the input file and calls process_video; mkdir_ok is whether
\* task_dir.mkdir succeeds.  When it raises, no task dict has been stored, and the
\* except clause of upload_video removes the input file and answers 500.  The task
\* id is a fresh uuid4: no request has named it, so its history starts empty.
upload_video(total, mkdir_ok) ==
    /\ next_id < MaxTasks
    /\ LET t == next_id + 1
           saved == [exists |-> TRUE, mtime |-> now]
       IN  /\ next_id' = t
           /\ IF mkdir_ok
              THEN /\ outdir' = [outdir EXCEPT ![t] = mkdir(now)]
                   /\ active_tasks' = active_tasks @@ (t :> new_task(total, now))
                   /\ upload' = [upload EXCEPT ![t] = saved]
                   /\ pc' = [pc EXCEPT ![t] = "created"]
                   /\ copies_count' = [copies_count EXCEPT ![t] = total]
                   /\ UNCHANGED <<raised, unlinks>>
              ELSE /\ upload' = [upload EXCEPT ![t] = cleanup_file(saved)]
                   /\ unlinks' = [unlinks EXCEPT ![t] = 1]
                   /\ raised' = [raised EXCEPT ![t] = "mkdir"]
                   /\ pc' = [pc EXCEPT ![t] = "rejected"]
                   /\ UNCHANGED <<outdir, active_tasks, copies_count>>
    /\ resp' = NoResp
    /\ UNCHANGED gen_vars
    /\ events' = [events EXCEPT ![next_id + 1] = {}]
    /\ UNCHANGED <<bg, now, i, created_files, ret, failed_copies>>

\* ---- _process_task ----
\* the except clause of the run (lines 167-177), entered at `where`.  The update of
\* the task dict raises KeyError when the dict is gone, and that leaves the run.
run_except(t, where) ==
    /\ raised' = [raised EXCEPT ![t] = where]
    /\ IF has_task(t)
       THEN /\ active_tasks' = [active_tasks EXCEPT ![t].status = "failed",
                                                    ![t].error = ExcText,
                                                    ![t].last_accessed = now]
            /\ upload' = [upload EXCEPT ![t] = cleanup_file(@)]
            /\ unlinks' = [unlinks EXCEPT ![t] = @ + unlink_count(upload[t])]
            /\ pc' = [pc EXCEPT ![t] = "failed"]
       ELSE /\ pc' = [pc EXCEPT ![t] = "escaped"]
            /\ UNCHANGED <<active_tasks, upload, unlinks>>

\* a terminal update that writes a status outside the three of the state machine
completed_update_typo(rec, clock) ==
    [rec EXCEPT !.status = "complete", !.last_accessed = clock]

\* the terminal update of the try block (lines 154-165)
completed_update(rec, clock) ==
    [rec EXCEPT !.status = "completed", !.last_accessed = clock]

run_complete(t, tasks) ==
    IF t \in DOMAIN tasks
    THEN /\ active_tasks' = [tasks EXCEPT ![t] = completed_update(@, now)]
         /\ upload' = [upload EXCEPT ![t] = cleanup_file(@)]
         /\ unlinks' = [unlinks EXCEPT ![t] = @ + unlink_count(upload[t])]
         /\ pc' = [pc EXCEPT ![t] = "done"]
         /\ UNCHANGED raised
    ELSE run_except(t, "after_loop")

\* the run starts: up to the first await of the loop (lines 106-119)
process_task_start(t) ==
    /\ pc[t] = "created"
    /\ pc' = [pc EXCEPT ![t] = "encoding"]
    /\ i' = [i EXCEPT ![t] = 1]
    /\ created_files' = [created_files EXCEPT ![t] = <<>>]
    /\ UNCHANGED <<active_tasks, outdir, bg, upload, next_id, now,
                   copies_count, ret, hist_vars>>
    /\ no_response
    /\ UNCHANGED gen_vars

\* ---- VideoUniquifier.create_unique_copy, in its worker thread ----
\* How a call can go: the encoder exits with status 0 and its output file is there
\* (ok); it exits with status 0 and output_path is not there when the method looks
\* (no_output); it exits with another status, subprocess.run raising
\* CalledProcessError, and leaves nothing (exit_error) or a part of the output file
\* (exit_error_partial); or building or launching the command raises (launch_error).
EncodeOutcomes == {"ok", "no_output", "exit_error", "exit_error_partial", "launch_error"}

\* the outcomes in which an exception is raised inside the try block
EncodeRaises == {"exit_error", "exit_error_partial", "launch_error"}

\* the outcomes that leave a file at output_path
EncodeWrites == {"ok", "exit_error_partial"}

\* a method that returns True whenever the encoder exited with status 0
create_unique_copy_returns_exit_status(outcome, exists_after) == outcome \notin EncodeRaises

\* what the method returns: output_path.exists() after the encoder exited with
\* status 0 (line 54), False from either except clause (lines 56-61)
create_unique_copy_returns(outcome, exists_after) ==
    IF outcome \in EncodeRaises THEN FALSE ELSE exists_after

\* The encoder takes an input file to read if it is to exit with status 0 or to
\* start writing, and a directory to write to if it is to leave a file.
create_unique_copy(t, outcome) ==
    /\ pc[t] = "encoding"
    /\ outcome \in {"ok", "no_output", "exit_error_partial"} => upload[t].exists
    /\ outcome \in EncodeWrites => outdir[t].exists
    /\ LET f == output_filename(i[t])
           after == IF outcome \in EncodeWrites /\ f \notin outdir[t].files
                    THEN [outdir EXCEPT ![t].files = @ \cup {f}, ![t].mtime = now]
                    ELSE outdir
       IN  /\ outdir' = after
           /\ ret' = [ret EXCEPT ![t] = create_unique_copy_returns(
                                            outcome,
                                            after[t].exists /\ f \in after[t].files)]
    /\ pc' = [pc EXCEPT ![t] = "encoded"]
    /\ UNCHANGED <<active_tasks, bg, upload, next_id, now, i, created_files,
                   copies_count, hist_vars>>
    /\ no_response
    /\ UNCHANGED gen_vars

\* the awaited asyncio.to_thread call itself raises (line 119)
encode_await_raises(t) ==
    /\ pc[t] = "encoding"
    /\ run_except(t, "loop")
    /\ resp' = NoResp
    /\ UNCHANGED gen_vars
    /\ record_event(t, "encode_raised")
    /\ UNCHANGED <<outdir, bg, next_id, now, i, created_files, copies_count, ret,
                   failed_copies>>

\* a loop that appends whatever the encoder returned
copy_succeeded_always(t) == TRUE

\* `success and output_path.exists()` (line 127)
copy_succeeded(t) ==
    ret[t] /\ outdir[t].exists /\ output_filename(i[t]) \in outdir[t].files

\* a progress update that counts one copy too many
progress_update_off_by_one(rec, idx, files, clock) ==
    [rec EXCEPT !.progress = idx + 1, !.files = files, !.last_accessed = clock]

\* the progress update (lines 134-136)
progress_update(rec, idx, files, clock) ==
    [rec EXCEPT !.progress = idx, !.files = files, !.last_accessed = clock]

\* the run resumes after the encode (lines 127-139)
after_encode(t) ==
    /\ pc[t] = "encoded"
    /\ LET cf == IF copy_succeeded(t)
                 THEN Append(created_files[t], output_filename(i[t]))
                 ELSE created_files[t]
       IN  /\ created_files' = [created_files EXCEPT ![t] = cf]
           /\ failed_copies' =
                  IF ret[t] /\ output_filename(i[t]) \in outdir[t].files THEN failed_copies
                  ELSE [failed_copies EXCEPT ![t] = @ \cup {i[t]}]
           /\ IF has_task(t)
              THEN /\ active_tasks' = [active_tasks EXCEPT
                                          ![t] = progress_update(@, i[t], cf, now)]
                   /\ pc' = [pc EXCEPT ![t] = "sleeping"]
                   /\ UNCHANGED <<upload, raised, unlinks>>
              ELSE run_except(t, "loop")
    /\ UNCHANGED <<outdir, bg, next_id, now, i, copies_count, ret>>
    /\ no_response
    /\ UNCHANGED gen_vars

\* an end of loop that builds the archive of an empty created_files too
after_sleep_always_archives(t) ==
    /\ pc[t] = "sleeping"
    /\ IF i[t] < copies_count[t]
       THEN /\ i' = [i EXCEPT ![t] = @ + 1]
            /\ pc' = [pc EXCEPT ![t] = "encoding"]
       ELSE /\ pc' = [pc EXCEPT ![t] = "zipping"]
            /\ UNCHANGED i
    /\ UNCHANGED <<active_tasks, upload, raised, unlinks, outdir, bg, next_id, now,
                   created_files, copies_count, ret, failed_copies>>
    /\ no_response
    /\ UNCHANGED gen_vars

\* the run resumes after asyncio.sleep(0.1): the next copy, or the end of the loop
\* (lines 112 and 141-165; an empty created_files skips the archive)
after_sleep(t) ==
    /\ pc[t] = "sleeping"
    /\ IF i[t] < copies_count[t]
       THEN /\ i' = [i EXCEPT ![t] = @ + 1]
            /\ pc' = [pc EXCEPT ![t] = "encoding"]
            /\ UNCHANGED <<active_tasks, upload, raised, unlinks>>
       ELSE /\ IF created_files[t] # <<>>
               THEN /\ pc' = [pc EXCEPT ![t] = "zipping"]
                    /\ UNCHANGED <<active_tasks, upload, raised, unlinks>>
               ELSE run_complete(t, active_tasks)
            /\ UNCHANGED i
    /\ UNCHANGED <<outdir, bg, next_id, now, created_files, copies_count, ret,
                   failed_copies>>
    /\ no_response
    /\ UNCHANGED gen_vars

\* a create_zip that writes every listed file, on disk or not
zip_write_all(files, on_disk) == {files[k] : k \in DOMAIN files}

\* ---- _create_archive ----
\* the loop of create_zip: each listed file that exists is written to the archive
RECURSIVE zip_write(_, _)
zip_write(files, on_disk) ==
    IF files = <<>> THEN {}
    ELSE (IF Head(files) \in on_disk THEN {Head(files)} ELSE {})
             \cup zip_write(Tail(files), on_disk)

\* create_zip in its worker thread.  ok is whether it runs without an exception; it
\* cannot when the directory is gone.  An exception may leave a broken archive file
\* behind (left); _create_archive catches it and returns None.
create_zip(t, ok, left) ==
    /\ pc[t] = "zipping"
    /\ ok => outdir[t].exists
    /\ left => (~ok /\ outdir[t].exists)
    /\ outdir' = IF ok \/ left
                 THEN [outdir EXCEPT
                          ![t].zip = TRUE,
                          ![t].members = IF ok THEN zip_write(created_files[t], outdir[t].files)
                                         ELSE {},
                          ![t].on_disk = outdir[t].files,
                          ![t].mtime = IF outdir[t].zip THEN @ ELSE now]
                 ELSE outdir
    /\ ret' = [ret EXCEPT ![t] = ok]
    /\ pc' = [pc EXCEPT ![t] = "zipped"]
    /\ UNCHANGED <<active_tasks, bg, upload, next_id, now, i, created_files,
                   copies_count, hist_vars>>
    /\ no_response
    /\ UNCHANGED gen_vars

\* a _create_archive that returns the path whatever became of the build
archive_built_unchecked(t) == archive_name(t)

\* what _create_archive returns (line 219), as the name of the archive or None
archive_built(t) ==
    IF ret[t] /\ outdir[t].exists /\ outdir[t].zip THEN archive_name(t) ELSE None

\* the run resumes after the archive (lines 147-165)
after_archive(t) ==
    /\ pc[t] = "zipped"
    /\ IF archive_built(t) # None
       THEN IF has_task(t)
            THEN run_complete(t, [active_tasks EXCEPT ![t].archive = archive_built(t)])
            ELSE run_except(t, "after_loop")
       ELSE run_complete(t, active_tasks)
    /\ UNCHANGED <<outdir, bg, next_id, now, i, created_files, copies_count, ret,
                   failed_copies>>
    /\ no_response
    /\ UNCHANGED gen_vars

\* ---- TaskStore reads ----
\* a read that leaves last_accessed as it is
touch_not(tasks, t, clock) == tasks

\* get_task_status and the first half of get_task_files: an existing task dict gets
\* last_accessed = now
touch(tasks, t, clock) ==
    IF t \in DOMAIN tasks THEN [tasks EXCEPT ![t].last_accessed = clock] ELSE tasks

\* the second half of get_task_files: the directory, when it exists
get_task_files(t) == IF outdir[t].exists THEN t ELSE 0

\* ---- the request handlers that read ----
\* a response: the handler, the task id asked for, the HTTP status code, which of
\* the handler's answers it is, and what it carries
Response(op, t, code, detail, body) ==
    [op |-> op, t |-> t, code |-> code, detail |-> detail, body |-> body]

\* a file name of the request path /api/download/{task_id}/{filename}
FileNames == {output_filename(k) : k \in CopyCounts} \cup {archive_name(t) : t \in TaskIds}

\* file_path.exists() for task_dir / filename
file_exists(t, f) ==
    outdir[t].exists /\ (f \in outdir[t].files \/ (f = archive_name(t) /\ outdir[t].zip))

\* a status answer that carries a message whatever the status is
get_status_response_any_message(t) ==
    IF ~has_task(t) THEN Response("get_status", t, 404, "task_not_found", None)
    ELSE Response("get_status", t, 200, "ok",
                  [status |-> active_tasks[t].status,
                   progress |-> active_tasks[t].progress,
                   total_copies |-> active_tasks[t].total,
                   message |-> IF active_tasks[t].error # None THEN active_tasks[t].error
                               ELSE <<"ok">>])

\* get_status: 404 when the store has no such task, else the status snapshot with
\* task.get('error') as its message
get_status_response(t) ==
    IF ~has_task(t) THEN Response("get_status", t, 404, "task_not_found", None)
    ELSE Response("get_status", t, 200, "ok",
                  [status |-> active_tasks[t].status,
                   progress |-> active_tasks[t].progress,
                   total_copies |-> active_tasks[t].total,
                   message |-> active_tasks[t].error])

get_status(t) ==
    /\ active_tasks' = touch(active_tasks, t, now)
    /\ resp' = get_status_response(t)
    /\ UNCHANGED gen_vars
    /\ UNCHANGED <<outdir, bg, upload, next_id, now, run_vars, hist_vars, events>>

\* a result query that does not look at the status
get_result_response_unchecked(t) ==
    IF ~has_task(t) THEN Response("get_result", t, 404, "task_not_found", None)
    ELSE Response("get_result", t, 200, "ok",
                  [status |-> active_tasks[t].status,
                   files |-> active_tasks[t].files,
                   archive_url |-> IF active_tasks[t].archive # None
                                   THEN <<"download_archive", t>> ELSE None])

\* get_result: 404 when the store has no such task, 400 when its status is not
\* completed, else the files and the URL of the archive
get_result_response(t) ==
    IF ~has_task(t) THEN Response("get_result", t, 404, "task_not_found", None)
    ELSE IF active_tasks[t].status # "completed"
    THEN Response("get_result", t, 400, "not_completed", None)
    ELSE Response("get_result", t, 200, "ok",
                  [status |-> active_tasks[t].status,
                   files |-> active_tasks[t].files,
                   archive_url |-> IF active_tasks[t].archive # None
                                   THEN <<"download_archive", t>> ELSE None])

get_result(t) ==
    /\ active_tasks' = touch(active_tasks, t, now)
    /\ resp' = get_result_response(t)
    /\ UNCHANGED gen_vars
    /\ UNCHANGED <<outdir, bg, upload, next_id, now, run_vars, hist_vars, events>>

\* download_file: it asks get_task_files for the directory and never looks at the
\* task dict; 404 when the directory or the file is missing, else the file
download_file_response(t, f) ==
    IF get_task_files(t) = 0 THEN Response("download_file", t, 404, "task_not_found", None)
    ELSE IF ~file_exists(t, f) THEN Response("download_file", t, 404, "file_not_found", None)
    ELSE Response("download_file", t, 200, "ok", f)

download_file(t, f) ==
    /\ active_tasks' = touch(active_tasks, t, now)
    /\ resp' = download_file_response(t, f)
    /\ UNCHANGED gen_vars
    /\ UNCHANGED <<outdir, bg, upload, next_id, now, run_vars, hist_vars, events>>

\* whether download_archive serves the archive (lines 235-256)
archive_served(t) ==
    /\ has_task(t)
    /\ active_tasks[t].status = "completed"
    /\ active_tasks[t].archive # None
    /\ get_task_files(t) # 0
    /\ outdir[t].zip

\* the answers of download_archive, in the order of its checks.  (Its 500 for an
\* archive of size 0 needs an archive that a successful build left empty; a zip
\* file with no member is not empty, so that answer is not reached.)
download_archive_response(t) ==
    IF ~has_task(t) THEN Response("download_archive", t, 404, "task_not_found", None)
    ELSE IF active_tasks[t].status # "completed"
    THEN Response("download_archive", t, 400, "not_completed", None)
    ELSE IF active_tasks[t].archive = None
    THEN Response("download_archive", t, 404, "archive_not_ready", None)
    ELSE IF get_task_files(t) = 0
    THEN Response("download_archive", t, 404, "directory_not_found", None)
    ELSE IF ~outdir[t].zip
    THEN Response("download_archive", t, 404, "archive_not_on_disk", None)
    ELSE Response("download_archive", t, 200, "ok", active_tasks[t].archive)

\* download_archive: when the archive is served, the cleanup is scheduled to run
\* after the response
download_archive(t) ==
    /\ active_tasks' = touch(active_tasks, t, now)
    /\ bg' = IF archive_served(t) THEN [bg EXCEPT ![t] = "scheduled"] ELSE bg
    /\ resp' = download_archive_response(t)
    /\ UNCHANGED gen_vars
    /\ events' = IF archive_served(t) THEN [events EXCEPT ![t] = @ \cup {"served"}]
                 ELSE events
    /\ UNCHANGED <<outdir, upload, next_id, now, run_vars, hist_vars>>

\* ---- shutil.rmtree ----
\* The outcomes of rmtree on a directory: it removes the directory with all it
\* holds (ok), or it raises after it removed some of the entries.
RmOutcomes(d) ==
    {[ok |-> TRUE, files |-> d.files, zip |-> d.zip]}
        \cup {[ok |-> FALSE, files |-> g, zip |-> z] :
                 g \in SUBSET d.files, z \in {FALSE, d.zip}}

rmtree(d, o, clock) ==
    IF o.ok THEN NoDir
    ELSE [d EXCEPT !.files = @ \ o.files,
                   !.zip = @ /\ ~o.zip,
                   !.members = IF o.zip THEN {} ELSE @,
                   !.on_disk = IF o.zip THEN {} ELSE @,
                   !.mtime = IF o.files # {} \/ o.zip THEN clock ELSE @]

\* ---- delete_task ----
\* the answer of delete_task: 200 with the space freed, or, when rmtree raises, the
\* 500 of an unhandled exception
delete_task_response(t, o) ==
    IF o.ok THEN Response("delete_task", t, 200, "deleted", None)
    ELSE Response("delete_task", t, 500, "error", None)

\* a delete that removes the directory and leaves the task dict in the store
delete_task_keeps_record(t, o) ==
    /\ IF outdir[t].exists
       THEN /\ o \in RmOutcomes(outdir[t])
            /\ outdir' = [outdir EXCEPT ![t] = rmtree(@, o, now)]
       ELSE /\ o.ok
            /\ UNCHANGED outdir
    /\ active_tasks' = touch(active_tasks, t, now)
    /\ resp' = delete_task_response(t, o)
    /\ UNCHANGED gen_vars
    /\ events' = IF o.ok THEN [events EXCEPT ![t] = @ \cup {"deleted"}] ELSE events
    /\ UNCHANGED <<bg, upload, next_id, now, run_vars, hist_vars>>

\* The handler has no await: it is one step.  When rmtree raises, the handler ends
\* there and the task dict stays.
delete_task(t, o) ==
    /\ IF outdir[t].exists
       THEN /\ o \in RmOutcomes(outdir[t])
            /\ outdir' = [outdir EXCEPT ![t] = rmtree(@, o, now)]
            /\ active_tasks' = IF o.ok THEN del_task(active_tasks, t)
                               ELSE touch(active_tasks, t, now)
       ELSE /\ o.ok
            /\ active_tasks' = del_task(active_tasks, t)
            /\ UNCHANGED outdir
    /\ resp' = delete_task_response(t, o)
    /\ UNCHANGED gen_vars
    /\ events' = IF o.ok THEN [events EXCEPT ![t] = @ \cup {"deleted"}] ELSE events
    /\ UNCHANGED <<bg, upload, next_id, now, run_vars, hist_vars>>

\* ---- cleanup_task_after_download, in a worker thread ----
\* first the directory (lines 207-215); an exception ends the function (line 222)
cleanup_rmtree(t, o) ==
    /\ bg[t] = "scheduled"
    /\ IF outdir[t].exists
       THEN /\ o \in RmOutcomes(outdir[t])
            /\ outdir' = [outdir EXCEPT ![t] = rmtree(@, o, now)]
            /\ bg' = [bg EXCEPT ![t] = IF o.ok THEN "removed" ELSE "idle"]
       ELSE /\ o.ok
            /\ bg' = [bg EXCEPT ![t] = "removed"]
            /\ UNCHANGED outdir
    /\ no_response
    /\ UNCHANGED gen_vars
    /\ UNCHANGED <<active_tasks, upload, next_id, now, run_vars, hist_vars>>

\* a cleanup that ends without deleting the task dict
cleanup_del_keeps_record(t) ==
    /\ bg[t] = "removed"
    /\ bg' = [bg EXCEPT ![t] = "idle"]
    /\ resp' = NoResp
    /\ UNCHANGED gen_vars
    /\ record_event(t, "consumed")
    /\ UNCHANGED <<active_tasks, outdir, upload, next_id, now, run_vars, hist_vars>>

\* then the task dict (lines 218-220)
cleanup_del(t) ==
    /\ bg[t] = "removed"
    /\ active_tasks' = del_task(active_tasks, t)
    /\ bg' = [bg EXCEPT ![t] = "idle"]
    /\ resp' = NoResp
    /\ UNCHANGED gen_vars
    /\ record_event(t, "consumed")
    /\ UNCHANGED <<outdir, upload, next_id, now, run_vars, hist_vars>>

\* ---- cleanup_old_tasks ----
\* `last_accessed < cutoff_time` (line 261)
is_expired(rec, cutoff) == rec.last_accessed < cutoff

\* an age test that also takes what is exactly as old as the cutoff
is_old_inclusive(mtime, cutoff) == mtime <= cutoff

\* `mtime < cutoff_time` (lines 291 and 306)
is_old(mtime, cutoff) == mtime < cutoff

\* step 1 (lines 258-279): the expired tasks, the directories rmtree is tried on,
\* the directories and the task dicts afterwards
expired_tasks(hours) ==
    {t \in DOMAIN active_tasks : is_expired(active_tasks[t], now - hours)}

expired_dirs(hours) == {t \in expired_tasks(hours) : outdir[t].exists}

dirs_after_tasks(hours, o1) ==
    [t \in TaskIds |-> IF t \in expired_dirs(hours) THEN rmtree(outdir[t], o1[t], now)
                       ELSE outdir[t]]

tasks_after_sweep(hours) ==
    [k \in (DOMAIN active_tasks) \ expired_tasks(hours) |-> active_tasks[k]]

\* step 2 (lines 282-298): the directories with no task dict and an old mtime
orphan_dirs(hours, o1) ==
    {t \in TaskIds : /\ dirs_after_tasks(hours, o1)[t].exists
                     /\ t \notin DOMAIN tasks_after_sweep(hours)
                     /\ is_old(dirs_after_tasks(hours, o1)[t].mtime, now - hours)}

dirs_after_orphans(hours, o1, o2) ==
    [t \in TaskIds |-> IF t \in orphan_dirs(hours, o1)
                       THEN rmtree(dirs_after_tasks(hours, o1)[t], o2[t], now)
                       ELSE dirs_after_tasks(hours, o1)[t]]

\* step 3 (lines 301-312): the old files of the upload directory
old_uploads(hours) ==
    {t \in TaskIds : upload[t].exists /\ is_old(upload[t].mtime, now - hours)}

\* one rmtree outcome for each directory of `tried`
RmChoices(dirs, tried) ==
    {o \in [TaskIds -> UNION {RmOutcomes(dirs[t]) : t \in TaskIds}] :
        \A t \in TaskIds :
            IF t \in tried THEN o[t] \in RmOutcomes(dirs[t])
            ELSE o[t] = [ok |-> TRUE, files |-> dirs[t].files, zip |-> dirs[t].zip]}

\* a pass over the uploads that is skipped when a removal before it has raised
uploads_removed_unless_raised(hours, o1, o2, stuck) ==
    IF \E t \in TaskIds : \/ (t \in expired_dirs(hours) /\ ~o1[t].ok)
                         \/ (t \in orphan_dirs(hours, o1) /\ ~o2[t].ok)
    THEN {}
    ELSE old_uploads(hours) \ stuck

\* the upload files step 3 unlinks: each old one whose unlink does not raise, as each
\* file has a try of its own (lines 304-312)
uploads_removed(hours, o1, o2, stuck) == old_uploads(hours) \ stuck

\* ---- the sizes the sweep adds up ----
\* sum(f.stat().st_size for f in task_dir.rglob('*') if f.is_file()), every file
\* taken to be one unit long
dir_size(d) == Cardinality(d.files) + (IF d.zip THEN 1 ELSE 0)

\* the sum of dir_size over the directories of S
RECURSIVE total_size(_, _)
total_size(dirs, S) ==
    IF S = {} THEN 0
    ELSE LET t == CHOOSE x \in S : TRUE
         IN  dir_size(dirs[t]) + total_size(dirs, S \ {t})

\* cleaned_count (lines 273 and 295): one for each rmtree that returned
cleaned_count(hours, o1, o2) ==
    Cardinality({t \in expired_dirs(hours) : o1[t].ok})
        + Cardinality({t \in orphan_dirs(hours, o1) : o2[t].ok})

\* freed_space: step 1 adds the size of a directory before it calls rmtree (line
\* 269), steps 2 and 3 add after the removal (lines 294 and 309)
freed_space(hours, o1, o2, stuck) ==
    total_size(outdir, expired_dirs(hours))
        + total_size(dirs_after_tasks(hours, o1),
                     {t \in orphan_dirs(hours, o1) : o2[t].ok})
        + Cardinality(uploads_removed(hours, o1, o2, stuck))

\* what a sweep called with `hours` gives back, `cleaned_count, freed_space` (line
\* 319), and what it leaves behind besides its effects: the errors it logged (lines
\* 275, 298 and 312), one for each removal that raised
cleanup_response(hours, o1, o2, stuck) ==
    Response("cleanup_old_tasks", 0, 200, "completed",
             [hours |-> hours,
              failed_tasks |-> {t \in expired_dirs(hours) : ~o1[t].ok},
              failed_orphans |-> {t \in orphan_dirs(hours, o1) : ~o2[t].ok},
              failed_uploads |-> stuck,
              cleaned_count |-> cleaned_count(hours, o1, o2),
              freed_space |-> freed_space(hours, o1, o2, stuck)])

\* The sweep has no await: it is one step.  o1 and o2 are the outcomes of the rmtree
\* calls of steps 1 and 2, stuck the upload files whose unlink raises.
cleanup_old_tasks(hours, o1, o2, stuck) ==
    /\ o1 \in RmChoices(outdir, expired_dirs(hours))
    /\ o2 \in RmChoices(dirs_after_tasks(hours, o1), orphan_dirs(hours, o1))
    /\ stuck \subseteq old_uploads(hours)
    /\ active_tasks' = tasks_after_sweep(hours)
    /\ outdir' = dirs_after_orphans(hours, o1, o2)
    /\ upload' = [t \in TaskIds |-> IF t \in uploads_removed(hours, o1, o2, stuck)
                                    THEN cleanup_file(upload[t]) ELSE upload[t]]
    /\ unlinks' = [t \in TaskIds |-> IF t \in uploads_removed(hours, o1, o2, stuck)
                                     THEN unlinks[t] + 1 ELSE unlinks[t]]
    /\ resp' = cleanup_response(hours, o1, o2, stuck)
    /\ UNCHANGED gen_vars
    /\ events' = [t \in TaskIds |->
                      IF t \in orphan_dirs(hours, o1) /\ o2[t].ok
                      THEN events[t] \cup {"reclaimed"} ELSE events[t]]
    /\ UNCHANGED <<bg, next_id, now, run_vars, raised, failed_copies>>

\* ---- a new process lifetime ----
\* the states of a run that has not ended
InFlight == {"created", "encoding", "encoded", "sleeping", "zipping", "zipped"}

\* The process stops and is started again: VideoProcessor() makes an empty
\* active_tasks; the runs, the worker threads and the background tasks of the old
\* process are gone with it; the disk keeps what it held.
restart ==
    /\ next_id > 0
    /\ active_tasks' = [t \in {} |-> None]
    /\ bg' = [t \in TaskIds |-> "idle"]
    /\ pc' = [t \in TaskIds |-> IF pc[t] \in InFlight THEN "lost" ELSE pc[t]]
    /\ resp' = NoResp
    /\ UNCHANGED gen_vars
    /\ events' = [t \in TaskIds |-> IF pc[t] = "unborn" THEN events[t]
                                     ELSE events[t] \cup {"prior_lifetime"}]
    /\ UNCHANGED <<outdir, upload, next_id, now, i, created_files, copies_count, ret,
                   hist_vars>>

\* ---- the service ----
Next ==
    \/ Tick
    \/ \E total \in CopyCounts, mkdir_ok \in BOOLEAN : upload_video(total, mkdir_ok)
    \/ \E t \in TaskIds : process_task_start(t)
    \/ \E t \in TaskIds, outcome \in EncodeOutcomes : create_unique_copy(t, outcome)
    \/ \E t \in TaskIds : encode_await_raises(t)
    \/ \E t \in TaskIds : after_encode(t)
    \/ \E t \in TaskIds : after_sleep(t)
    \/ \E t \in TaskIds, ok \in BOOLEAN, left \in BOOLEAN : create_zip(t, ok, left)
    \/ \E t \in TaskIds : after_archive(t)
    \/ \E t \in TaskIds : get_status(t)
    \/ \E t \in TaskIds : get_result(t)
    \/ \E t \in TaskIds, f \in FileNames : download_file(t, f)
    \/ \E t \in TaskIds : download_archive(t)
    \/ \E t \in TaskIds : \E o \in RmOutcomes(outdir[t]) : delete_task(t, o)
    \/ \E t \in TaskIds : \E o \in RmOutcomes(outdir[t]) : cleanup_rmtree(t, o)
    \/ \E t \in TaskIds : cleanup_del(t)
    \/ \E hours \in Hours :
          \E o1 \in RmChoices(outdir, expired_dirs(hours)) :
             \E o2 \in RmChoices(dirs_after_tasks(hours, o1), orphan_dirs(hours, o1)) :
                \E stuck \in SUBSET old_uploads(hours) :
                   cleanup_old_tasks(hours, o1, o2, stuck)
    \/ restart

Spec == Init /\ [][Next]_vars

\* ==== VideoUniquifier._generate_unique_params ====
\* ---- bounds of the generator's model ----
RngSize == 2
MaxIndex == 3
MaxClock == 2
MaxCalls == 2

RngStates == 0..(RngSize - 1)
CopyIndices == 1..MaxIndex

\* ---- the pseudo-random source ----
\* random.seed(n): the state of the source afterwards depends on n alone
seed(n) == n % RngSize

\* the state of the source after one draw
advance(s) == (s + 1) % RngSize

\* the state of the source k draws after state s
RECURSIVE after(_, _)
after(s, k) == IF k = 0 THEN s ELSE after(advance(s), k - 1)

\* what the draws of module random return in state s
random_random(s) == s
random_choice(s, seq) == seq[(s % Len(seq)) + 1]
random_randint(s, a, b) == a + (s % (b - a + 1))
random_uniform(s, a, b) == [lo |-> a, hi |-> b, at |-> s]

\* ---- formatting ----
Digits == <<"0", "1", "2", "3", "4", "5", "6", "7", "8", "9">>

\* str(n) of an integer n >= 0, as its sequence of characters
RECURSIVE Str(_)
Str(n) == IF n < 10 THEN <<Digits[n + 1]>> ELSE Str(n \div 10) \o <<Digits[(n % 10) + 1]>>

\* str(x) of a float with integer part n
FloatStr(n) == Str(n) \o <<".", "0">>

\* str(x) of the float random.random() returned
FractionStr(r) == <<"0", ".">> \o Str(r)

\* a hash input that leaves the copy number out
unique_id_input_no_copy_number(copy_number, timestamp, r) ==
    FloatStr(timestamp) \o <<"_">> \o FractionStr(r)

\* f"{copy_number}_{timestamp}_{random.random()}" (line 93)
unique_id_input(copy_number, timestamp, r) ==
    Str(copy_number) \o <<"_">> \o FloatStr(timestamp) \o <<"_">> \o FractionStr(r)

\* hashlib.sha256(...).hexdigest(), taken as injective: the digest stands for its input
sha256(text) == <<"sha256", text>>

\* ---- the recipe ----
fps_variations == <<"23.976", "24", "25", "29.97", "30", "30.01", "50", "59.94", "60">>
preset_options == <<"slower", "slow", "medium">>
audio_bitrates == <<"192k", "256k", "320k">>
pixel_formats == <<"yuv420p", "yuv420p10le">>

\* the draws of one call of create_unique_copy, in the order of the code: those of
\* _generate_unique_params (lines 72-88 and 93, then 108-110) and the two crop
\* offsets of _build_ffmpeg_command (lines 138-139)
DrawOrder ==
    <<"fps_base", "fps_offset", "crf", "preset", "scale_factor", "gop_size",
      "audio_bitrate", "audio_volume", "unique_id", "pixel_format", "b_frames",
      "ref_frames", "shift_x", "shift_y">>

\* the states of the source that the draws of a call for copy_number see when no
\* other thread uses the source: it is seeded with copy_number (line 68), and each
\* draw advances it
solo_draws(copy_number) ==
    [k \in 1..Len(DrawOrder) |-> after(seed(copy_number), k - 1)]

\* the dict _generate_unique_params returns for copy_number when datetime.now() is
\* clock and its draws see the states d of the source (lines 71-110)
unique_params(copy_number, clock, d) ==
    LET timestamp == clock + copy_number
    IN  [fps |-> <<random_choice(d[1], fps_variations),
                   random_uniform(d[2], "-0.001", "0.001")>>,
         crf |-> random_randint(d[3], 17, 23),
         preset |-> random_choice(d[4], preset_options),
         scale_factor |-> <<1, random_uniform(d[5], "-0.005", "0.005")>>,
         gop_size |-> random_randint(d[6], 240, 260),
         audio_bitrate |-> random_choice(d[7], audio_bitrates),
         audio_volume |-> <<1, random_uniform(d[8], "-0.003", "0.003")>>,
         creation_time |-> <<"isoformat", timestamp>>,
         unique_id |-> sha256(unique_id_input(copy_number, timestamp,
                                              random_random(d[9]))),
         copy_number |-> copy_number,
         encoder_tag |-> <<"UniqueEncoder_v", copy_number>>,
         pixel_format |-> random_choice(d[10], pixel_formats),
         b_frames |-> random_randint(d[11], 2, 4),
         ref_frames |-> random_randint(d[12], 3, 5)]

\* one call of _generate_unique_params on its own: the source is seeded with
\* copy_number and the draws follow
generate_unique_params(copy_number, total_copies, clock) ==
    unique_params(copy_number, clock, solo_draws(copy_number))

\* shift_x and shift_y of the crop filter (lines 138-140)
crop_shift(d) ==
    [shift_x |-> random_uniform(d[13], "-0.5", "0.5"),
     shift_y |-> random_uniform(d[14], "-0.5", "0.5")]

\* the fields of a recipe that are drawn from the source
SampledFields ==
    {"fps", "crf", "preset", "scale_factor", "gop_size", "audio_bitrate",
     "audio_volume", "pixel_format", "b_frames", "ref_frames"}

\* ---- the generator on its own ----
\* the source is in any state when the first call is made
GenInit ==
    /\ active_tasks = [t \in {} |-> None]
    /\ outdir = [t \in TaskIds |-> NoDir]
    /\ bg = [t \in TaskIds |-> "idle"]
    /\ upload = [t \in TaskIds |-> NoFile]
    /\ next_id = 0
    /\ now = 0
    /\ pc = [t \in TaskIds |-> "unborn"]
    /\ i = [t \in TaskIds |-> 0]
    /\ created_files = [t \in TaskIds |-> <<>>]
    /\ copies_count = [t \in TaskIds |-> 0]
    /\ ret = [t \in TaskIds |-> FALSE]
    /\ raised = [t \in TaskIds |-> "no"]
    /\ failed_copies = [t \in TaskIds |-> {}]
    /\ unlinks = [t \in TaskIds |-> 0]
    /\ resp = NoResp
    /\ events = [t \in TaskIds |-> {}]
    /\ rng \in RngStates
    /\ calls = <<>>
    /\ worker = [th \in Threads |-> Idle]
    /\ sched = [last |-> 0, preemptions |-> 0]

service_vars == <<active_tasks, outdir, bg, upload, next_id, pc, i, created_files,
                  copies_count, ret, raised, failed_copies, unlinks, resp, events>>

\* time passes between two calls
clock_advances ==
    /\ now < MaxClock
    /\ now' = now + 1
    /\ UNCHANGED <<service_vars, gen_vars>>

\* one call of _generate_unique_params(copy_number, total_copies)
generate_call(copy_number, total_copies) ==
    /\ Len(calls) < MaxCalls
    /\ calls' = Append(calls, [copy_number |-> copy_number,
                               total_copies |-> total_copies,
                               at |-> now,
                               params |-> generate_unique_params(copy_number,
                                                                 total_copies, now)])
    /\ rng' = after(seed(copy_number), 12)
    /\ UNCHANGED <<service_vars, now, worker, sched>>

GenNext ==
    \/ clock_advances
    \/ \E copy_number \in CopyIndices, total_copies \in CopyIndices :
          copy_number <= total_copies /\ generate_call(copy_number, total_copies)

GenSpec == GenInit /\ [][GenNext]_vars

\* ==== concurrent encodes: several worker threads and the one source ====
\* asyncio.to_thread runs create_unique_copy of each task's run in a thread of the
\* default executor (video_processor.py lines 119-125), so the calls of two tasks
\* overlap; module random is one source for the whole process.  A thread's call is
\* its random.seed followed by its draws, each of them one step.

\* a step of thread th preempts the thread that ran last: that one is another
\* thread, and it is inside its call
preempts(th) ==
    IF sched.last \in {0, th} THEN FALSE ELSE worker[sched.last].pos = "drawing"

\* thread th may take a step, within the bound on preemptions
may_run(th) == IF preempts(th) THEN sched.preemptions < MaxPreemptions ELSE TRUE

scheduled(th) ==
    [last |-> th,
     preemptions |-> IF preempts(th) THEN sched.preemptions + 1 ELSE sched.preemptions]

\* random.seed(copy_number), the first statement of _generate_unique_params
worker_seed(th, copy_number) ==
    /\ worker[th].pos = "idle"
    /\ may_run(th)
    /\ rng' = seed(copy_number)
    /\ worker' = [worker EXCEPT ![th] = [copy_number |-> copy_number, pos |-> "drawing",
                                         drawn |-> <<>>]]
    /\ sched' = scheduled(th)
    /\ UNCHANGED <<service_vars, now, calls>>

\* the next draw of the thread: it returns what the source gives in its state now,
\* and advances the source
worker_draw(th) ==
    /\ worker[th].pos = "drawing"
    /\ may_run(th)
    /\ rng' = advance(rng)
    /\ worker' = [worker EXCEPT
                     ![th].drawn = Append(@, rng),
                     ![th].pos = IF Len(worker[th].drawn) + 1 = Len(DrawOrder)
                                 THEN "returned" ELSE "drawing"]
    /\ sched' = scheduled(th)
    /\ UNCHANGED <<service_vars, now, calls>>

RaceNext ==
    \/ \E th \in Threads, copy_number \in CopyIndices : worker_seed(th, copy_number)
    \/ \E th \in Threads : worker_draw(th)

RaceSpec == GenInit /\ [][RaceNext]_vars

\* ==== the claims ====
StatusValues == {"processing", "completed", "failed"}

Terminal == {"completed", "failed"}

\* the copy index a file name was made from
copy_index(f) == f[1] * 100 + f[2] * 10 + f[3]

IsPrefix(a, b) == Len(a) <= Len(b) /\ \A k \in 1..Len(a) : a[k] = b[k]

Increasing(files) ==
    \A k \in 1..Len(files) - 1 : copy_index(files[k]) < copy_index(files[k + 1])

\* the run of task t has ended
RunEnded(t) == pc[t] \in {"done", "failed", "escaped"}

\* C1: the status of a task dict is always one of processing, completed, failed, and
\* a dict whose status is completed or failed keeps that status as long as it is in
\* the store, whatever step is taken.
C1_StatusMonotone ==
    [][\A t \in DOMAIN active_tasks :
          /\ active_tasks[t].status \in StatusValues
          /\ t \in DOMAIN active_tasks' =>
                /\ active_tasks'[t].status \in StatusValues
                /\ active_tasks[t].status \in Terminal =>
                      active_tasks'[t].status = active_tasks[t].status]_vars

\* a completed task that a download touched afterwards
C1_Witness ==
    \E t \in DOMAIN active_tasks :
        active_tasks[t].status = "completed" /\ bg[t] = "scheduled"

\* C2: 0 <= progress <= total in every task dict, and no step lowers the progress of
\* a dict that stays in the store.
C2_ProgressMonotone ==
    [][\A t \in DOMAIN active_tasks :
          /\ 0 <= active_tasks[t].progress
          /\ active_tasks[t].progress <= active_tasks[t].total
          /\ t \in DOMAIN active_tasks' =>
                /\ active_tasks'[t].progress >= active_tasks[t].progress
                /\ active_tasks'[t].progress <= active_tasks'[t].total]_vars

\* a task of several copies whose progress reached its total
C2_Witness ==
    \E t \in DOMAIN active_tasks :
        active_tasks[t].total >= 2 /\ active_tasks[t].progress = active_tasks[t].total

\* C3: files is append-only (its value before a step is a prefix of its value
\* after), its copy indices strictly increase, and it is never longer than total
\* or than progress.
C3_FilesAppendOnly ==
    [][\A t \in DOMAIN active_tasks :
          /\ Increasing(active_tasks[t].files)
          /\ Len(active_tasks[t].files) <= active_tasks[t].total
          /\ Len(active_tasks[t].files) <= active_tasks[t].progress
          /\ t \in DOMAIN active_tasks' =>
                /\ IsPrefix(active_tasks[t].files, active_tasks'[t].files)
                /\ Increasing(active_tasks'[t].files)
                /\ Len(active_tasks'[t].files) <= active_tasks'[t].total
                /\ Len(active_tasks'[t].files) <= active_tasks'[t].progress]_vars

\* a task with two files
C3_Witness ==
    \E t \in DOMAIN active_tasks : Len(active_tasks[t].files) >= 2

\* C4: a copy that fails does not fail the task.  A run ends other than by the
\* completed update only when an exception was raised, a failed task is one whose
\* run raised, and a completed task has progress = total and as files the names
\* of exactly the copies 1..total that did not fail, in increasing order.
C4_PerCopyFailureTolerated ==
    \A t \in TaskIds :
        /\ pc[t] \in {"failed", "escaped"} => raised[t] # "no"
        /\ has_task(t) /\ active_tasks[t].status = "failed" => raised[t] # "no"
        /\ has_task(t) /\ active_tasks[t].status = "completed" =>
              /\ active_tasks[t].progress = active_tasks[t].total
              /\ Increasing(active_tasks[t].files)
              /\ \A k \in 1..Len(active_tasks[t].files) :
                    active_tasks[t].files[k] =
                        output_filename(copy_index(active_tasks[t].files[k]))
              /\ {copy_index(f) : f \in Range(active_tasks[t].files)}
                    = (1..active_tasks[t].total) \ failed_copies[t]

\* total = 3 and copy 2 failed: completed with copies 1 and 3
C4_Witness ==
    \E t \in DOMAIN active_tasks :
        /\ active_tasks[t].status = "completed"
        /\ active_tasks[t].total = 3
        /\ failed_copies[t] = {2}
        /\ active_tasks[t].files = <<output_filename(1), output_filename(3)>>

\* C5: a run that leaves the loop with no file, and a run whose archive build
\* failed or left no archive, both end (unless the process dies first) with status
\* completed and no archive in the task dict (when the dict is still in the store).
C5_CompletedWithoutOutput ==
    [][\A t \in DOMAIN active_tasks :
          /\ ( /\ pc[t] = "sleeping" /\ i[t] = copies_count[t]
               /\ created_files[t] = <<>>
               /\ pc'[t] \notin {pc[t], "lost"} ) =>
                 /\ pc'[t] = "done"
                 /\ t \in DOMAIN active_tasks'
                 /\ active_tasks'[t].status = "completed"
                 /\ active_tasks'[t].archive = None
          /\ ( /\ pc[t] = "zipped"
               /\ (~ret[t] \/ ~outdir[t].exists \/ ~outdir[t].zip)
               /\ pc'[t] \notin {pc[t], "lost"} ) =>
                 /\ pc'[t] = "done"
                 /\ t \in DOMAIN active_tasks'
                 /\ active_tasks'[t].status = "completed"
                 /\ active_tasks'[t].archive = None]_vars

\* a completed task that has files and no archive
C5_Witness ==
    \E t \in DOMAIN active_tasks :
        /\ pc[t] = "done"
        /\ active_tasks[t].status = "completed"
        /\ active_tasks[t].files # <<>>
        /\ active_tasks[t].archive = None

\* C6: a task dict has an archive only when progress = total and files is not
\* empty, and an archive once set is never changed.
C6_ArchiveSetOnce ==
    [][\A t \in DOMAIN active_tasks :
          /\ active_tasks[t].archive # None =>
                /\ active_tasks[t].progress = active_tasks[t].total
                /\ active_tasks[t].files # <<>>
          /\ t \in DOMAIN active_tasks' =>
                /\ active_tasks[t].archive # None =>
                      active_tasks'[t].archive = active_tasks[t].archive
                /\ active_tasks'[t].archive # None =>
                      /\ active_tasks'[t].progress = active_tasks'[t].total
                      /\ active_tasks'[t].files # <<>>]_vars

\* a task with its archive, some time after it was set
C6_Witness ==
    \E t \in DOMAIN active_tasks :
        /\ active_tasks[t].archive = archive_name(t)
        /\ active_tasks[t].last_accessed < now

\* C7: the members of an archive that was built are exactly the listed files that
\* were on disk when it was built.
C7_ArchiveMembers ==
    \A t \in TaskIds :
        (outdir[t].zip /\ ret[t]) =>
            /\ has_task(t) => active_tasks[t].files = created_files[t]
            /\ outdir[t].members \subseteq Range(created_files[t])
            /\ outdir[t].members \subseteq outdir[t].on_disk
            /\ \A f \in Range(created_files[t]) :
                  f \in outdir[t].on_disk => f \in outdir[t].members

\* an archive built after one of the listed files had vanished
C7_Witness ==
    \E t \in TaskIds :
        /\ outdir[t].zip /\ ret[t]
        /\ outdir[t].members # {}
        /\ \E f \in Range(created_files[t]) : f \notin outdir[t].on_disk

\* C8 as stated: when the run of a task has ended, its input file is gone and was
\* unlinked exactly once.
C8_InputDeletedOnce ==
    \A t \in TaskIds : RunEnded(t) => (~upload[t].exists /\ unlinks[t] = 1)

\* C9 as stated: after a failure outside the per-copy loop (the mkdir of the
\* submission, or an exception after the loop) the store holds the task with
\* status failed and the exception text, and the input file is gone.
C9_WholeTaskFailureRecorded ==
    \A t \in TaskIds :
        raised[t] \in {"mkdir", "after_loop"} =>
            /\ has_task(t)
            /\ active_tasks[t].status = "failed"
            /\ active_tasks[t].error = ExcText
            /\ ~upload[t].exists

\* a step of the sweep with threshold hours
IsSweep(hours) ==
    \E o1 \in RmChoices(outdir, expired_dirs(hours)) :
       \E o2 \in RmChoices(dirs_after_tasks(hours, o1), orphan_dirs(hours, o1)) :
          \E stuck \in SUBSET old_uploads(hours) :
             cleanup_old_tasks(hours, o1, o2, stuck)

\* C10 as stated: a sweep at time now with threshold hours removes the task dict
\* and the directory of every task whose last_accessed is before now - hours, and
\* leaves the dict and the directory of every other task as they are.
C10_SweepBoundary ==
    [][\A hours \in Hours :
          IsSweep(hours) =>
             \A t \in DOMAIN active_tasks :
                IF active_tasks[t].last_accessed < now - hours
                THEN t \notin DOMAIN active_tasks' /\ ~outdir'[t].exists
                ELSE /\ t \in DOMAIN active_tasks'
                     /\ active_tasks'[t] = active_tasks[t]
                     /\ outdir'[t] = outdir[t]]_vars

\* C11 as stated: a sweep removes every directory that has no task dict and whose
\* mtime is before the cutoff, leaves as it is every directory that has no task
\* dict and whose mtime is at or after the cutoff, and leaves as it is every
\* directory whose task dict is still in the store after step 1.
C11_OrphanSweep ==
    [][\A hours \in Hours :
          IsSweep(hours) =>
             \A t \in TaskIds :
                /\ (t \notin DOMAIN active_tasks /\ outdir[t].exists) =>
                      IF outdir[t].mtime < now - hours
                      THEN ~outdir'[t].exists
                      ELSE outdir'[t] = outdir[t]
                /\ t \in DOMAIN active_tasks' => outdir'[t] = outdir[t]]_vars

\* C11 as amended: the same, but an old orphan directory whose rmtree raises (the
\* sweep logs the error) stays, with what the rmtree had not removed yet.
C11_OrphanSweepUnlessRmtreeRaises ==
    [][resp'.op = "cleanup_old_tasks" =>
          \A t \in TaskIds :
             /\ (t \notin DOMAIN active_tasks /\ outdir[t].exists) =>
                   IF outdir[t].mtime < now - resp'.body.hours
                   THEN IF t \notin resp'.body.failed_orphans
                        THEN ~outdir'[t].exists
                        ELSE /\ outdir'[t].exists
                             /\ outdir'[t].files \subseteq outdir[t].files
                             /\ outdir'[t].zip => outdir[t].zip
                   ELSE outdir'[t] = outdir[t]
             /\ t \in DOMAIN active_tasks' => outdir'[t] = outdir[t]]_vars

\* the directory of a task of an earlier process lifetime, removed by a sweep
C11_Witness ==
    \E t \in TaskIds :
        /\ {"prior_lifetime", "reclaimed"} \subseteq events[t]
        /\ ~outdir[t].exists

\* C12 as stated: whenever no post-download cleanup is half-way, every task id of
\* this process lifetime has its task dict in the store exactly when it has its
\* directory on disk.
C12_DeletedTogether ==
    \A t \in TaskIds :
        ("prior_lifetime" \notin events[t] /\ bg[t] # "removed") =>
            (has_task(t) <=> outdir[t].exists)

\* C13 as stated: once an archive retrieval of a task has been served, every status
\* query for that task id answers not found.
C13_ConsumeOnce ==
    \A t \in TaskIds :
        ("served" \in events[t] /\ resp.op = "get_status" /\ resp.t = t) =>
            resp.code = 404

\* C13 as amended: a served archive retrieval schedules the cleanup of the task;
\* once that cleanup has run to its end, the directory and the task dict are gone
\* for good, and every status query for the task id answers not found.
C13_ConsumedAfterCleanup ==
    /\ (resp.op = "download_archive" /\ resp.code = 200) => bg[resp.t] = "scheduled"
    /\ \A t \in TaskIds :
          {"served", "consumed"} \subseteq events[t] =>
              /\ ~has_task(t)
              /\ ~outdir[t].exists
              /\ (resp.op = "get_status" /\ resp.t = t) =>
                    (resp.code = 404 /\ resp.detail = "task_not_found")

\* a status query that answers not found after the archive was served and cleaned up
C13_Witness ==
    \E t \in TaskIds :
        /\ {"served", "consumed"} \subseteq events[t]
        /\ "deleted" \notin events[t]
        /\ "prior_lifetime" \notin events[t]
        /\ resp.op = "get_status" /\ resp.t = t /\ resp.code = 404

\* C14: a result query for a task whose status is not completed answers 400 "not
\* completed" and carries no files; for a task id that is not in the store it
\* answers 404; it answers 200 only for a completed task; and it changes nothing of
\* the task dict but last_accessed.
C14_ResultOnlyWhenCompleted ==
    [][resp'.op = "get_result" =>
          LET t == resp'.t
          IN  IF t \in DOMAIN active_tasks
              THEN /\ IF active_tasks[t].status = "completed"
                      THEN resp'.code = 200 /\ resp'.body.files = active_tasks[t].files
                      ELSE /\ resp'.code = 400
                           /\ resp'.detail = "not_completed"
                           /\ resp'.body = None
                   /\ t \in DOMAIN active_tasks'
                   /\ active_tasks'[t] = [active_tasks[t] EXCEPT !.last_accessed = now]
              ELSE /\ resp'.code = 404
                   /\ resp'.detail = "task_not_found"
                   /\ active_tasks' = active_tasks]_vars

\* a result query refused for a task that is half-way, and one refused for a failed
\* task
C14_Witness ==
    /\ resp.op = "get_result" /\ resp.code = 400 /\ resp.detail = "not_completed"
    /\ has_task(resp.t)
    /\ \/ active_tasks[resp.t].status = "processing" /\ active_tasks[resp.t].progress >= 1
       \/ active_tasks[resp.t].status = "failed"

\* C15: when delete_task has returned (it answered 200; an rmtree that raises makes
\* the handler raise instead), the task id has neither a directory nor a task dict,
\* whatever the status was and wherever the run stood, and it never has one again.
C15_DeleteUnconditional ==
    /\ (resp.op = "delete_task" /\ resp.code = 200) =>
          (~has_task(resp.t) /\ ~outdir[resp.t].exists)
    /\ \A t \in TaskIds :
          "deleted" \in events[t] => (~has_task(t) /\ ~outdir[t].exists)

\* a delete that has just returned while the run of the task was between two copies
C15_Witness ==
    /\ resp.op = "delete_task" /\ resp.code = 200
    /\ pc[resp.t] = "sleeping" /\ i[resp.t] < copies_count[resp.t]
    /\ created_files[resp.t] # <<>>

\* a step in which the run of task t writes to its task dict: the progress update
\* after an encode, the archive or terminal update, or the update of the except
\* clause
RunWrites(t) ==
    /\ pc'[t] # "lost"
    /\ \/ pc[t] = "encoded" /\ pc'[t] # "encoded"
       \/ pc[t] = "zipped" /\ pc'[t] # "zipped"
       \/ pc[t] \in {"encoding", "sleeping"} /\ pc'[t] \in {"done", "failed", "escaped"}

\* C16 as stated: whenever the run of a task writes to its task dict, that dict is
\* in the store, whatever deletes have been interleaved with the run.
C16_NoWriteAfterDelete ==
    [][\A t \in TaskIds : RunWrites(t) => t \in DOMAIN active_tasks]_vars

\* C17 as stated: a run whose encode calls all returned ends only after it has
\* attempted every copy 1..total, by its terminal update or by recording a failure;
\* no delete, retrieval or sweep ends it earlier.
C17_NoExternalAbort ==
    \A t \in TaskIds :
        (RunEnded(t) /\ "encode_raised" \notin events[t]) =>
            (pc[t] \in {"done", "failed"} /\ i[t] = copies_count[t])

\* C18 as stated: two calls of the generator with the same copy index return the
\* same recipe, whenever they are made.
C18_GenerateDeterministic ==
    \A a, b \in DOMAIN calls :
        calls[a].copy_number = calls[b].copy_number => calls[a].params = calls[b].params

\* C19: the recipes of two calls with different copy indices have different
\* unique_id fields (the hash taken as injective), whatever else they share.
C19_UniqueIdDiffers ==
    \A a, b \in DOMAIN calls :
        calls[a].copy_number # calls[b].copy_number =>
            calls[a].params.unique_id # calls[b].params.unique_id

\* two recipes for different copy indices with the same sampled fields, the same
\* auxiliary draw and the same timestamp
C19_Witness ==
    \E a, b \in DOMAIN calls :
        /\ calls[a].copy_number # calls[b].copy_number
        /\ \A f \in SampledFields : calls[a].params[f] = calls[b].params[f]
        /\ calls[a].params.creation_time = calls[b].params.creation_time
        /\ calls[a].params.unique_id # calls[b].params.unique_id

\* C20 as stated: a status query, result query, archive retrieval or single-file
\* retrieval for a task id that has no task dict answers 404, whatever is on disk,
\* and leaves the store and the disk as they are.
C20_NotFoundWithoutRecord ==
    [][(/\ resp'.op \in {"get_status", "get_result", "download_archive", "download_file"}
        /\ resp'.t \notin DOMAIN active_tasks) =>
           /\ resp'.code = 404
           /\ active_tasks' = active_tasks
           /\ outdir' = outdir
           /\ upload' = upload]_vars

\* C21 as stated: whenever an exception is raised inside the run of a task, the run
\* catches it and records it: the run ends in its except clause with the task dict
\* in the store, status failed and the exception text as error; no exception leaves
\* the run, whatever deletes and sweeps are interleaved with it.
C21_ExceptionsRecorded ==
    [][\A t \in TaskIds :
          (raised'[t] # raised[t] /\ raised'[t] \in {"loop", "after_loop"}) =>
             /\ pc'[t] = "failed"
             /\ t \in DOMAIN active_tasks'
             /\ active_tasks'[t].status = "failed"
             /\ active_tasks'[t].error = ExcText]_vars

\* C22 as stated: while the status of a task is processing (its task dict is in
\* the store before and after the step), its input file is deleted by no step but
\* one of its own run (the cleanup at the end of the run); the sweep's pass over
\* the upload directory leaves it alone.
C22_InputOwnedWhileProcessing ==
    [][\A t \in DOMAIN active_tasks :
          ( /\ active_tasks[t].status = "processing"
            /\ t \in DOMAIN active_tasks'
            /\ upload[t].exists
            /\ ~upload'[t].exists ) =>
               (pc[t] \in InFlight /\ pc'[t] \in {"done", "failed"})]_vars

\* C23: a task dict has an error message exactly when its status is failed, before
\* and after every step (so the message is set in the step that sets the status to
\* failed, and in no other), and the message of a status answer is the error of the
\* task dict: it is there exactly when the status of the answer is failed.
C23_ErrorIffFailed ==
    [][/\ \A t \in DOMAIN active_tasks :
             active_tasks[t].error # None <=> active_tasks[t].status = "failed"
       /\ \A t \in DOMAIN active_tasks' :
             active_tasks'[t].error # None <=> active_tasks'[t].status = "failed"
       /\ (resp'.op = "get_status" /\ resp'.code = 200) =>
             /\ resp'.body.message = active_tasks[resp'.t].error
             /\ resp'.body.status = active_tasks[resp'.t].status
             /\ resp'.body.message # None <=> resp'.body.status = "failed"]_vars

\* a status query answered for a failed task, with the exception text
C23_Witness ==
    /\ resp.op = "get_status" /\ resp.code = 200
    /\ resp.body.status = "failed" /\ resp.body.message = ExcText

\* the handlers that read a task: get_status and get_result through
\* get_task_status, download_file through get_task_files, download_archive through
\* both
ReadOps == {"get_status", "get_result", "download_file", "download_archive"}

\* C24: every read of a task dict that is in the store (a status query, a result
\* query, a file or archive retrieval, the directory lookup of a delete whose
\* rmtree raises) and every write of its run (progress update, archive and terminal
\* update, the update of the except clause) leaves last_accessed = now; no step
\* lowers last_accessed or changes created_at, and last_accessed is never before
\* created_at.
C24_LastAccessedRefreshed ==
    [][/\ \A t \in DOMAIN active_tasks :
             /\ active_tasks[t].last_accessed >= active_tasks[t].created_at
             /\ t \in DOMAIN active_tasks' =>
                   /\ active_tasks'[t].last_accessed >= active_tasks[t].last_accessed
                   /\ active_tasks'[t].created_at = active_tasks[t].created_at
                   /\ active_tasks'[t].last_accessed >= active_tasks'[t].created_at
             /\ RunWrites(t) =>
                   (t \in DOMAIN active_tasks' /\ active_tasks'[t].last_accessed = now)
       /\ (resp'.op \in ReadOps /\ resp'.t \in DOMAIN active_tasks) =>
             /\ resp'.t \in DOMAIN active_tasks'
             /\ active_tasks'[resp'.t].last_accessed = now
       /\ (resp'.op = "delete_task" /\ resp'.code = 500
              /\ resp'.t \in DOMAIN active_tasks) =>
             /\ resp'.t \in DOMAIN active_tasks'
             /\ active_tasks'[resp'.t].last_accessed = now]_vars

\* a result query that has just refreshed the last_accessed of a task that was
\* last written at an earlier time
C24_Witness ==
    /\ resp.op = "get_result" /\ has_task(resp.t)
    /\ active_tasks[resp.t].last_accessed = now
    /\ active_tasks[resp.t].created_at < now
    /\ pc[resp.t] = "done"

\* C25: a sweep returns normally whatever removals raise, and what it removes does
\* not depend on the removals that raised: the task dict of every expired task is
\* deleted, and every directory of an expired task, every old directory without a
\* task dict and every old upload file is removed unless its own removal raised.
C25_SweepNotAborted ==
    [][resp'.op = "cleanup_old_tasks" =>
          LET cutoff == now - resp'.body.hours
          IN  /\ resp'.code = 200
              /\ \A t \in DOMAIN active_tasks :
                    active_tasks[t].last_accessed < cutoff =>
                       /\ t \notin DOMAIN active_tasks'
                       /\ (outdir[t].exists /\ t \notin resp'.body.failed_tasks) =>
                             ~outdir'[t].exists
              /\ \A t \in TaskIds :
                    ( /\ t \notin DOMAIN active_tasks
                      /\ outdir[t].exists /\ outdir[t].mtime < cutoff
                      /\ t \notin resp'.body.failed_orphans ) => ~outdir'[t].exists
              /\ \A t \in TaskIds :
                    ( /\ upload[t].exists /\ upload[t].mtime < cutoff
                      /\ t \notin resp'.body.failed_uploads ) => ~upload'[t].exists]_vars

\* a sweep in which the rmtree of an expired task's directory raised, and which
\* went on to delete the task dict and to unlink the input file the run had not
\* unlinked yet
C25_Witness ==
    /\ resp.op = "cleanup_old_tasks" /\ resp.code = 200
    /\ \E t \in resp.body.failed_tasks :
          /\ outdir[t].exists /\ ~has_task(t)
          /\ pc[t] \in InFlight /\ unlinks[t] = 1 /\ ~upload[t].exists

\* C26 as stated: the count a sweep returns is the number of task dicts it deleted
\* plus the number of directories without a task dict it removed, and the bytes it
\* returns are the sizes of the directories and upload files it removed, each once,
\* and nothing for a removal that raised.
C26_SweepReturnAccurate ==
    [][resp'.op = "cleanup_old_tasks" =>
          /\ resp'.body.cleaned_count =
                Cardinality((DOMAIN active_tasks) \ (DOMAIN active_tasks'))
                   + Cardinality({t \in TaskIds \ (DOMAIN active_tasks) :
                                     outdir[t].exists /\ ~outdir'[t].exists})
          /\ resp'.body.freed_space =
                total_size(outdir, {t \in TaskIds : outdir[t].exists /\ ~outdir'[t].exists})
                   + Cardinality({t \in TaskIds : upload[t].exists /\ ~upload'[t].exists})]_vars

\* C27: a call of create_unique_copy returns True exactly when the encoder exited
\* with status 0 and the output file is there afterwards; in every other outcome it
\* returns False, and in none does it raise into the run.  The run appends the file
\* name exactly when the call returned True and the file is still there, and the
\* files of the task dict are the names appended.
C27_EncodeSuccessExact ==
    [][\A t \in TaskIds :
          /\ \A o \in EncodeOutcomes :
                create_unique_copy(t, o) =>
                   /\ ret'[t] <=> ( /\ o \in {"ok", "no_output"}
                                    /\ outdir'[t].exists
                                    /\ output_filename(i[t]) \in outdir'[t].files )
                   /\ pc'[t] = "encoded"
                   /\ raised'[t] = raised[t]
          /\ (pc[t] = "encoded" /\ pc'[t] \notin {"encoded", "lost"}) =>
                /\ created_files'[t] =
                      IF /\ ret[t] /\ outdir[t].exists
                         /\ output_filename(i[t]) \in outdir[t].files
                      THEN Append(created_files[t], output_filename(i[t]))
                      ELSE created_files[t]
                /\ created_files'[t] # created_files[t] => ret[t]
                /\ pc'[t] = "sleeping" =>
                      active_tasks'[t].files = created_files'[t]]_vars

\* an encoder that exited with an error status and left a part of its output: the
\* file is on disk, the call returned False, and the run did not append the name
C27_Witness ==
    \E t \in DOMAIN active_tasks :
        /\ pc[t] = "sleeping"
        /\ active_tasks[t].progress = i[t]
        /\ outdir[t].exists /\ output_filename(i[t]) \in outdir[t].files
        /\ ~ret[t]
        /\ i[t] \in failed_copies[t]
        /\ output_filename(i[t]) \notin Range(active_tasks[t].files)

\* C28 as stated: when the call of a worker thread has made all its draws, the
\* sampled fields of its recipe and its crop offsets are those of a call for the
\* same copy number that has the source to itself, however the seeds and draws of
\* the other threads were interleaved with its own.
C28_SeedIsolatesRecipe ==
    \A th \in Threads :
        worker[th].pos = "returned" =>
            /\ \A f \in SampledFields :
                  unique_params(worker[th].copy_number, now, worker[th].drawn)[f]
                      = generate_unique_params(worker[th].copy_number,
                                               worker[th].copy_number, now)[f]
            /\ crop_shift(worker[th].drawn) = crop_shift(solo_draws(worker[th].copy_number))

====
